---------------------------- MODULE Spec2Model ----------------------------
(***************************************************************************)
(* A model of the Treble.yo REST backend (src/api/server.js, the /api      *)
(* version of the handlers, lines 224-470): the pattern store, the five    *)
(* request handlers split at their awaits, the moderation filter and the   *)
(* file-type validator.                                                    *)
(*                                                                         *)
(* Strings are sequences of one-character strings, so that the string      *)
(* functions of the code (toLowerCase, replace, trim, RegExp.test,         *)
(* path.extname) are computed character by character.                      *)
(***************************************************************************)
EXTENDS Integers, Sequences, FiniteSets, TLC

VARIABLES
    badWords,   \* the blocked-term list read at start-up (server.js:262)
    db,         \* the TrebleUpload collection: documents in insertion order
    now,        \* the clock Date.now reads
    req,        \* the requests in flight, one per connection slot
    likeCount,  \* history: per slug, the like requests answered 200 so far
    fText,      \* FilterSpec: the text handed to containsBadWords
    fOut        \* FilterSpec: "none", or the value containsBadWords returned

vars == <<badWords, db, now, req, likeCount, fText, fOut>>

----------------------------------------------------------------------------
(* Bounds *)

\* Longest text handed to the moderation filter in FilterSpec.
MaxTextLen == 3
\* Most lines of the blocked-term file in FilterSpec.
MaxLines == 2
\* Last value of the clock.
MaxClock == 1
\* Most like requests ever started that find their record.
MaxLikes == 3

----------------------------------------------------------------------------
(* Characters and strings *)

UpperLetters ==
    <<"A","B","C","D","E","F","G","H","I","J","K","L","M",
      "N","O","P","Q","R","S","T","U","V","W","X","Y","Z">>

LowerLetters ==
    <<"a","b","c","d","e","f","g","h","i","j","k","l","m",
      "n","o","p","q","r","s","t","u","v","w","x","y","z">>

Digits == {"0","1","2","3","4","5","6","7","8","9"}

Range(s) == {s[i] : i \in 1..Len(s)}

\* String.prototype.toLowerCase on one character.
LowerChar(c) ==
    IF \E i \in 1..26 : UpperLetters[i] = c
    THEN LowerLetters[CHOOSE i \in 1..26 : UpperLetters[i] = c]
    ELSE c

\* String.prototype.toLowerCase.
toLowerCase(s) == [i \in 1..Len(s) |-> LowerChar(s[i])]

\* The regular expression class \w.
IsWordChar(c) ==
    c \in Range(LowerLetters) \cup Range(UpperLetters) \cup Digits \cup {"_"}

\* The regular expression class \s (the members this model's texts can hold).
IsSpace(c) == c \in {" ", "\t", "\n", "\r"}

\* String.prototype.trim.
RECURSIVE TrimLeft(_)
TrimLeft(s) ==
    IF s # <<>> /\ IsSpace(Head(s)) THEN TrimLeft(Tail(s)) ELSE s

RECURSIVE TrimRight(_)
TrimRight(s) ==
    IF s # <<>> /\ IsSpace(s[Len(s)])
    THEN TrimRight(SubSeq(s, 1, Len(s) - 1))
    ELSE s

trim(s) == TrimRight(TrimLeft(s))

\* The grave accent, which a string of this language cannot hold.
Backtick == "grave-accent"

\* The characters of the class the first replace of cleanText removes.
Punctuation ==
    {".", ",", "/", "#", "!", "$", "%", "^", "&", "*", ";", ":",
     "{", "}", "=", "-", "_", Backtick, "~", "(", ")"}

\* The first replace of cleanText: every punctuation character is removed.
RECURSIVE StripPunctuation(_)
StripPunctuation(s) ==
    IF s = <<>> THEN <<>>
    ELSE IF Head(s) \in Punctuation THEN StripPunctuation(Tail(s))
    ELSE <<Head(s)>> \o StripPunctuation(Tail(s))

\* The second replace of cleanText: a run of white space becomes one space.
RECURSIVE CollapseSpaces(_)
CollapseSpaces(s) ==
    IF s = <<>> THEN <<>>
    ELSE IF IsSpace(Head(s))
         THEN <<" ">> \o CollapseSpaces(TrimLeft(Tail(s)))
         ELSE <<Head(s)>> \o CollapseSpaces(Tail(s))

----------------------------------------------------------------------------
(* Regular expressions.  A pattern built by new RegExp(source, 'i') from a  *)
(* source made of letters, digits, spaces, '-', '_' and '.': every          *)
(* character stands for itself, compared without case, except '.', which   *)
(* matches any character but a line terminator.                             *)

RegExpAtomMatches(p, c) ==
    IF p = "." THEN c \notin {"\n", "\r"}
    ELSE LowerChar(p) = LowerChar(c)

\* The pattern matches the characters of t that follow position i.
RegExpMatchesAt(source, t, i) ==
    /\ i + Len(source) <= Len(t)
    /\ \A k \in 1..Len(source) : RegExpAtomMatches(source[k], t[i + k])

\* The assertion \b between positions i and i+1 of t (i in 0..Len(t)).
IsWordBoundary(t, i) ==
    LET before == i >= 1 /\ IsWordChar(t[i])
        after  == i < Len(t) /\ IsWordChar(t[i + 1])
    IN before # after

\* new RegExp(source, 'i').test(t)
RegExpTest(source, t) ==
    \E i \in 0..Len(t) : RegExpMatchesAt(source, t, i)

\* The test of a pattern anchored by a word boundary on both sides.
WordRegExpTest(source, t) ==
    \E i \in 0..Len(t) :
        /\ RegExpMatchesAt(source, t, i)
        /\ IsWordBoundary(t, i)
        /\ IsWordBoundary(t, i + Len(source))

----------------------------------------------------------------------------
(* The word list loader and the moderation filter *)

\* The lines of badwords.txt that are not blank.
LoadBadWords(lines) == SelectSeq(lines, LAMBDA word : trim(word) # <<>>)

lowerText(text) == toLowerCase(text)

cleanText(text) == trim(CollapseSpaces(StripPunctuation(lowerText(text))))

\* BadWordMatches as it would be with the test of cleanText left out.
BadWordMatchesLowerOnly(word, text) ==
    LET wordLower == toLowerCase(trim(word))
    IN  /\ wordLower # <<>>
        /\ WordRegExpTest(wordLower, lowerText(text))

\* The callback of badWords.some: one blocked term against both variants.
BadWordMatches(word, text) ==
    LET wordLower == toLowerCase(trim(word))
    IN  /\ wordLower # <<>>
        /\ \/ WordRegExpTest(wordLower, lowerText(text))
           \/ WordRegExpTest(wordLower, cleanText(text))

ContainsBadWordsIn(words, text) ==
    /\ text # <<>>
    /\ \E k \in 1..Len(words) : BadWordMatches(words[k], text)

containsBadWords(text) == ContainsBadWordsIn(badWords, text)

----------------------------------------------------------------------------
(* The file-type validator *)

\* The greatest member of a set of numbers, 0 when there is none.
MaxOf(S) == IF S = {} THEN 0 ELSE CHOOSE x \in S : \A y \in S : y <= x

\* path.extname (posix): the text from the last '.' of the last path
\* segment on; empty when that segment has no '.', starts with its only
\* '.', or is exactly '..'.
extname(p) ==
    LET end       == MaxOf({i \in 1..Len(p) : p[i] # "/"})
        startPart == MaxOf({i \in 1..end : p[i] = "/"})
        startDot  == MaxOf({i \in (startPart + 1)..end : p[i] = "."})
    IN  IF \/ startDot = 0
           \/ startDot = startPart + 1
           \/ (p[startPart + 1] = "." /\ startDot = end
                                      /\ startDot = startPart + 2)
        THEN <<>>
        ELSE SubSeq(p, startDot, end)

validExtensions ==
    { <<".","p","d","f">>, <<".","d","o","c">>,
      <<".","d","o","c","x">>, <<".","t","x","t">> }

isValidFileType(url) == toLowerCase(extname(url)) \in validExtensions

validImageExtensions ==
    { <<".","w","e","b","p">>, <<".","p","n","g">>,
      <<".","j","p","e","g">>, <<".","j","p","g">> }

\* The thumbnail check of the upload handler; an absent thumbnail passes.
IsValidThumbnail(thumbnailUrl) ==
    thumbnailUrl # <<>> =>
        toLowerCase(extname(thumbnailUrl)) \in validImageExtensions

----------------------------------------------------------------------------
(* The store: the TrebleUpload collection and its queries *)

\* A document of patternSchema; id is its _id, its place in the collection.
NewPattern(body, date) ==
    [ patternUrl   |-> body.patternUrl,
      patternName  |-> body.patternName,
      authorName   |-> body.authorName,
      description  |-> body.description,
      slug         |-> body.slug,
      thumbnailUrl |-> body.thumbnailUrl,
      dateUploaded |-> date,
      likes        |-> 0,
      id           |-> 0 ]

\* No document: what findOne gives when nothing matches.
NoDoc ==
    [ patternUrl |-> <<>>, patternName |-> <<>>, authorName |-> <<>>,
      description |-> <<>>, slug |-> <<>>, thumbnailUrl |-> <<>>,
      dateUploaded |-> 0, likes |-> 0, id |-> 0 ]

DocIds == 1..Len(db)

\* Pattern.findOne({ slug }): the first document with that slug, or none.
findOne(slug) ==
    LET hits == {i \in DocIds : db[i].slug = slug}
    IN  IF hits = {} THEN NoDoc
        ELSE db[CHOOSE i \in hits : \A j \in hits : i <= j]

\* DuplicateKey as it would be were the unique index not there.
DuplicateKeyUnenforced(doc) == FALSE

\* The unique index on slug (unique: true in patternSchema) refuses a
\* document whose slug another document holds: insertOne then throws.
DuplicateKey(doc) == \E i \in DocIds : db[i].slug = doc.slug

\* The insert of pattern.save() on a new document.
Insert(doc) == Append(db, [doc EXCEPT !.id = Len(db) + 1])

\* UpdateLikes as an atomic increment of the stored likes.
UpdateLikesAtomic(doc) ==
    [i \in DocIds |->
        IF db[i].id = doc.id THEN [db[i] EXCEPT !.likes = @ + 1]
        ELSE db[i]]

\* UpdateLikes with no filter on _id: every document is written.
UpdateLikesEveryDoc(doc) ==
    [i \in DocIds |-> [db[i] EXCEPT !.likes = doc.likes]]

\* The update of pattern.save() on a loaded document whose likes changed:
\* the document with that _id gets the new likes, nothing else is written.
UpdateLikes(doc) ==
    [i \in DocIds |->
        IF db[i].id = doc.id THEN [db[i] EXCEPT !.likes = doc.likes]
        ELSE db[i]]

\* IncrementedLikes with the wrong default for a missing count.
IncrementedLikesDefaultOne(likes) == (IF likes = 0 THEN 1 ELSE likes) + 1

\* (pattern.likes || 0) + 1
IncrementedLikes(likes) == (IF likes = 0 THEN 0 ELSE likes) + 1

\* The $or of the search: the pattern tested on the three text fields.
SearchMatches(searchRegex, doc) ==
    \/ RegExpTest(searchRegex, doc.patternName)
    \/ RegExpTest(searchRegex, doc.authorName)
    \/ RegExpTest(searchRegex, doc.description)

\* A sequence is in the order of sort({ dateUploaded: -1 }).
NewestFirst(docs) ==
    \A i, j \in 1..Len(docs) :
        i < j => docs[i].dateUploaded >= docs[j].dateUploaded

\* Pattern.find(...).sort({ dateUploaded: -1 }): the matching documents,
\* each once, newest first; documents of one date come in any order.
FindSorted(searchRegex) ==
    LET hits == {i \in DocIds : SearchMatches(searchRegex, db[i])}
        n    == Cardinality(hits)
    IN  { [k \in 1..n |-> db[f[k]]] :
            f \in {g \in [1..n -> hits] :
                    /\ \A a, b \in 1..n : a # b => g[a] # g[b]
                    /\ NewestFirst([k \in 1..n |-> db[g[k]]])} }

----------------------------------------------------------------------------
(* Requests *)

\* The connections on which requests arrive; each carries one request at a
\* time, and the requests of different connections interleave at their awaits.
Reqs == {"r1", "r2"}

S1 == <<"s","1">>
S2 == <<"s","2">>
Slugs == {S1, S2}

\* The blocked-term file of the server specification; its blank line is
\* dropped by the loader.
BadWordLines == << <<"b","a","d">>, <<" ">>, <<"U","g","l","y"," ">> >>

GoodBody1 ==
    [ patternUrl |-> <<"a",".","p","d","f">>, patternName |-> <<"A","b">>,
      authorName |-> <<"c">>, description |-> <<"d">>,
      slug |-> S1, thumbnailUrl |-> <<>> ]

GoodBody2 ==
    [ patternUrl |-> <<"x","/","b",".","T","X","T">>, patternName |-> <<"c">>,
      authorName |-> <<"a","b">>, description |-> <<"e">>,
      slug |-> S2, thumbnailUrl |-> <<"t",".","p","n","g">> ]

\* The JSON bodies of the upload requests: two that pass every check, and
\* one failing each check; an absent field is the empty string.
UploadBodies ==
    { GoodBody1,
      GoodBody2,
      [GoodBody1 EXCEPT !.description = <<>>],
      [GoodBody2 EXCEPT !.slug = <<>>],
      [GoodBody1 EXCEPT !.description = <<"s","o"," ","B","a","d","!">>],
      [GoodBody2 EXCEPT !.patternUrl = <<"u","g","l","y",".","t","x","t">>],
      [GoodBody1 EXCEPT !.patternUrl = <<"a",".","p","d","f","?","v">>],
      [GoodBody2 EXCEPT !.thumbnailUrl = <<"t",".","g","i","f">>] }

\* The values of the q parameter of the search requests.
Queries == { <<>>, <<"A","B">>, <<"a",".">> }

NoBody ==
    [ patternUrl |-> <<>>, patternName |-> <<>>, authorName |-> <<>>,
      description |-> <<>>, slug |-> <<>>, thumbnailUrl |-> <<>> ]

\* A response body: an error, a message, a likes count or documents.
NoResp == [error |-> "", message |-> "", likes |-> -1, docs |-> <<>>]

ErrorResp(text) == [NoResp EXCEPT !.error = text]

\* A connection with no request on it.
IdleReq ==
    [ kind |-> "none", pc |-> "idle", body |-> NoBody, slug |-> <<>>,
      q |-> <<>>, pattern |-> NoDoc, status |-> 0, resp |-> NoResp ]

\* res.status(status).json(resp): the request is answered.
Respond(r, status, resp) ==
    [req[r] EXCEPT !.pc = "done", !.status = status, !.resp = resp]

RequiredError == "Pattern URL, name, author name, and description are required"
DuplicateError == "This pattern ID already exists. Please try again."
BadWordsError == "Inappropriate Language Detected"
FileTypeError ==
    "Invalid file type. Only PDF, DOC, DOCX, and TXT files are allowed."
ThumbnailError ==
    "Invalid thumbnail file type. Only .webp, .png, .jpeg, and .jpg are allowed."
ServerError == "Server error"
NotFoundError == "Pattern not found"
UploadedMessage == "Pattern uploaded successfully"
RunningMessage == "Treble.yo API is running"

\* The like requests that have found their record: those answered 200 and
\* those awaiting their save.
LikesStarted ==
    LET Sum[S \in SUBSET Slugs] ==
            IF S = {} THEN 0
            ELSE LET s == CHOOSE x \in S : TRUE
                 IN  likeCount[s] + Sum[S \ {s}]
    IN  Sum[Slugs]
          + Cardinality({r \in Reqs : req[r].kind = "like" /\ req[r].pc = "save"})

----------------------------------------------------------------------------
(* The handlers, one action per stretch between two awaits *)

Init ==
    /\ badWords = LoadBadWords(BadWordLines)
    /\ db = <<>>
    /\ now = 0
    /\ req = [r \in Reqs |-> IdleReq]
    /\ likeCount = [s \in Slugs |-> 0]
    /\ fText = <<>>
    /\ fOut = "none"

\* Time passes.
Tick ==
    /\ now < MaxClock
    /\ now' = now + 1
    /\ UNCHANGED <<badWords, db, req, likeCount, fText, fOut>>

\* GET /api/
Health(r) ==
    /\ req[r].pc = "idle"
    /\ req' = [req EXCEPT ![r] =
                 [IdleReq EXCEPT !.kind = "health", !.pc = "done",
                                 !.status = 200,
                                 !.resp = [NoResp EXCEPT !.message = RunningMessage]]]
    /\ UNCHANGED <<badWords, db, now, likeCount, fText, fOut>>

\* GET /api/pattern/:slug
GetPattern(r, slug) ==
    /\ req[r].pc = "idle"
    /\ LET pattern == findOne(slug)
           started == [IdleReq EXCEPT !.kind = "fetch", !.slug = slug]
       IN  req' = [req EXCEPT ![r] =
                     IF pattern = NoDoc
                     THEN [started EXCEPT !.pc = "done", !.status = 404,
                                          !.resp = ErrorResp(NotFoundError)]
                     ELSE [started EXCEPT !.pc = "done", !.status = 200,
                                          !.resp = [NoResp EXCEPT !.docs = <<pattern>>]]]
    /\ UNCHANGED <<badWords, db, now, likeCount, fText, fOut>>

\* GET /api/search
Search(r, query) ==
    /\ req[r].pc = "idle"
    /\ LET started == [IdleReq EXCEPT !.kind = "search", !.q = query]
       IN  IF query = <<>>
           THEN req' = [req EXCEPT ![r] =
                          [started EXCEPT !.pc = "done", !.status = 400,
                               !.resp = ErrorResp("Search query is required")]]
           ELSE \E patterns \in FindSorted(query) :
                    req' = [req EXCEPT ![r] =
                              [started EXCEPT !.pc = "done", !.status = 200,
                                   !.resp = [NoResp EXCEPT !.docs = patterns]]]
    /\ UNCHANGED <<badWords, db, now, likeCount, fText, fOut>>

\* POST /api/upload, to the await of findOne: the required fields.
UploadRecv(r, body) ==
    /\ req[r].pc = "idle"
    /\ LET started == [IdleReq EXCEPT !.kind = "upload", !.body = body,
                                      !.slug = body.slug]
       IN  req' = [req EXCEPT ![r] =
                     IF \/ body.patternUrl = <<>> \/ body.patternName = <<>>
                        \/ body.authorName = <<>> \/ body.description = <<>>
                        \/ body.slug = <<>>
                     THEN [started EXCEPT !.pc = "done", !.status = 400,
                                          !.resp = ErrorResp(RequiredError)]
                     ELSE [started EXCEPT !.pc = "findOne"]]
    /\ UNCHANGED <<badWords, db, now, likeCount, fText, fOut>>

\* UploadCheck with the blocked-term check ahead of the duplicate check.
UploadCheckBadWordsFirst(body, existingPattern) ==
    IF \/ containsBadWords(body.patternUrl)
       \/ containsBadWords(body.patternName)
       \/ containsBadWords(body.authorName)
       \/ containsBadWords(body.description) THEN BadWordsError
    ELSE IF existingPattern # NoDoc THEN DuplicateError
    ELSE IF ~isValidFileType(body.patternUrl) THEN FileTypeError
    ELSE IF ~IsValidThumbnail(body.thumbnailUrl) THEN ThumbnailError
    ELSE ""

\* UploadCheck with the thumbnail check left out.
UploadCheckNoThumbnail(body, existingPattern) ==
    IF existingPattern # NoDoc THEN DuplicateError
    ELSE IF \/ containsBadWords(body.patternUrl)
            \/ containsBadWords(body.patternName)
            \/ containsBadWords(body.authorName)
            \/ containsBadWords(body.description) THEN BadWordsError
    ELSE IF ~isValidFileType(body.patternUrl) THEN FileTypeError
    ELSE ""

\* The checks of the upload handler that follow findOne: the answer they
\* give, or "" when all pass.
UploadCheck(body, existingPattern) ==
    IF existingPattern # NoDoc THEN DuplicateError
    ELSE IF \/ containsBadWords(body.patternUrl)
            \/ containsBadWords(body.patternName)
            \/ containsBadWords(body.authorName)
            \/ containsBadWords(body.description) THEN BadWordsError
    ELSE IF ~isValidFileType(body.patternUrl) THEN FileTypeError
    ELSE IF ~IsValidThumbnail(body.thumbnailUrl) THEN ThumbnailError
    ELSE ""

\* POST /api/upload, from findOne to the await of save.
UploadFindOne(r) ==
    /\ req[r].kind = "upload" /\ req[r].pc = "findOne"
    /\ LET failed == UploadCheck(req[r].body, findOne(req[r].body.slug))
       IN  req' = [req EXCEPT ![r] =
                     IF failed # ""
                     THEN Respond(r, 400, ErrorResp(failed))
                     ELSE [req[r] EXCEPT !.pc = "save",
                              !.pattern = NewPattern(req[r].body, now)]]
    /\ UNCHANGED <<badWords, db, now, likeCount, fText, fOut>>

\* POST /api/upload, the save and the answer; a rejected insert throws and
\* the catch answers 500.
UploadSave(r) ==
    /\ req[r].kind = "upload" /\ req[r].pc = "save"
    /\ IF DuplicateKey(req[r].pattern)
       THEN /\ db' = db
            /\ req' = [req EXCEPT ![r] = Respond(r, 500, ErrorResp(ServerError))]
       ELSE /\ db' = Insert(req[r].pattern)
            /\ req' = [req EXCEPT ![r] =
                         Respond(r, 201, [NoResp EXCEPT !.message = UploadedMessage])]
    /\ UNCHANGED <<badWords, now, likeCount, fText, fOut>>

\* POST /api/like/:slug, to the await of save: the document is read and
\* its likes raised in the handler's copy.
LikeFindOne(r, slug) ==
    /\ req[r].pc = "idle"
    /\ LikesStarted < MaxLikes
    /\ LET pattern == findOne(slug)
           started == [IdleReq EXCEPT !.kind = "like", !.slug = slug]
       IN  req' = [req EXCEPT ![r] =
                     IF pattern = NoDoc
                     THEN [started EXCEPT !.pc = "done", !.status = 404,
                                          !.resp = ErrorResp(NotFoundError)]
                     ELSE [started EXCEPT !.pc = "save",
                              !.pattern = [pattern EXCEPT
                                  !.likes = IncrementedLikes(pattern.likes)]]]
    /\ UNCHANGED <<badWords, db, now, likeCount, fText, fOut>>

\* POST /api/like/:slug, the save and the answer.
LikeSave(r) ==
    /\ req[r].kind = "like" /\ req[r].pc = "save"
    /\ db' = UpdateLikes(req[r].pattern)
    /\ req' = [req EXCEPT ![r] =
                 Respond(r, 200, [NoResp EXCEPT !.likes = req[r].pattern.likes])]
    /\ likeCount' = [likeCount EXCEPT ![req[r].slug] = @ + 1]
    /\ UNCHANGED <<badWords, now, fText, fOut>>

\* The answered request leaves its connection, which can carry another.
Close(r) ==
    /\ req[r].pc = "done"
    /\ req' = [req EXCEPT ![r] = IdleReq]
    /\ UNCHANGED <<badWords, db, now, likeCount, fText, fOut>>

Next ==
    \/ Tick
    \/ \E r \in Reqs : Health(r)
    \/ \E r \in Reqs, slug \in Slugs : GetPattern(r, slug)
    \/ \E r \in Reqs, query \in Queries : Search(r, query)
    \/ \E r \in Reqs, body \in UploadBodies : UploadRecv(r, body)
    \/ \E r \in Reqs : UploadFindOne(r)
    \/ \E r \in Reqs : UploadSave(r)
    \/ \E r \in Reqs, slug \in Slugs : LikeFindOne(r, slug)
    \/ \E r \in Reqs : LikeSave(r)
    \/ \E r \in Reqs : Close(r)

Spec == Init /\ [][Next]_vars

----------------------------------------------------------------------------
(* The moderation filter on its own: every blocked-term file of at most    *)
(* MaxLines lines and every text of at most MaxTextLen characters.         *)

\* The characters of the texts: a letter in both cases, a punctuation
\* character that is no word character, one that is, and the space.
FilterChars == {"a", "A", ".", "_", " "}

\* The lines a blocked-term file is made of: a blank line, plain terms (one
\* with a trailing space, one of two words), and terms with punctuation.
FilterLines ==
    { <<" ">>, <<"a">>, <<"A","a"," ">>, <<"a"," ","a">>,
      <<".","a">>, <<"a",".">> }

SeqsUpTo(S, n) == UNION {[1..k -> S] : k \in 0..n}

FilterInit ==
    /\ \E lines \in SeqsUpTo(FilterLines, MaxLines) :
           badWords = LoadBadWords(lines)
    /\ fText \in SeqsUpTo(FilterChars, MaxTextLen)
    /\ fOut = "none"
    /\ db = <<>>
    /\ now = 0
    /\ req = [r \in Reqs |-> IdleReq]
    /\ likeCount = [s \in Slugs |-> 0]

\* containsBadWords(fText) is called and its value kept.
ApplyFilter ==
    /\ fOut = "none"
    /\ fOut' = IF containsBadWords(fText) THEN "true" ELSE "false"
    /\ UNCHANGED <<badWords, db, now, req, likeCount, fText>>

FilterNext == ApplyFilter

FilterSpec == FilterInit /\ [][FilterNext]_vars

----------------------------------------------------------------------------
(* C6: the moderation filter and standalone words *)

\* The term occurs in t after position i, compared without case.
OccursAt(term, t, i) ==
    /\ i + Len(term) <= Len(t)
    /\ \A k \in 1..Len(term) : LowerChar(term[k]) = LowerChar(t[i + k])

\* The occurrence after position i is a standalone word: a non-word
\* character or a string boundary on both sides.
StandaloneAt(term, t, i) ==
    /\ OccursAt(term, t, i)
    /\ (i = 0 \/ ~IsWordChar(t[i]))
    /\ (i + Len(term) = Len(t) \/ ~IsWordChar(t[i + Len(term) + 1]))

ContainsStandalone(term, t) ==
    term # <<>> /\ \E i \in 0..Len(t) : StandaloneAt(term, t, i)

\* The blocked terms: the entries of the list, trimmed.
BlockedTerms == {trim(badWords[k]) : k \in 1..Len(badWords)}

\* A term that starts and ends with a word character and holds only word
\* characters and spaces.
PlainTerm(term) ==
    /\ term # <<>>
    /\ IsWordChar(term[1]) /\ IsWordChar(term[Len(term)])
    /\ \A k \in 1..Len(term) : IsWordChar(term[k]) \/ term[k] = " "

\* C6 as stated: a text holding a blocked term as a standalone word gives
\* true, and a text in which blocked terms occur, every occurrence inside a
\* larger word, gives false.
C6_StandaloneAsStated ==
    fOut # "none" =>
        /\ (\E term \in BlockedTerms : ContainsStandalone(term, fText))
               => fOut = "true"
        /\ ( /\ \E term \in BlockedTerms :
                    \E i \in 0..Len(fText) : OccursAt(term, fText, i)
             /\ \A term \in BlockedTerms : \A i \in 0..Len(fText) :
                    ~StandaloneAt(term, fText, i) )
               => fOut = "false"

\* C6 amended: when every blocked term is plain, containsBadWords is true
\* exactly when some term is a standalone word of the lowercased text or of
\* its punctuation-stripped variant.
C6_StandaloneInEitherVariant ==
    (fOut # "none" /\ \A term \in BlockedTerms : PlainTerm(term)) =>
        (fOut = "true" <=>
            \E term \in BlockedTerms :
                \/ ContainsStandalone(term, lowerText(fText))
                \/ ContainsStandalone(term, cleanText(fText)))

\* C6 witness: a plain term spliced with punctuation is found in the
\* stripped variant alone.
C6_Witness ==
    /\ fOut = "true"
    /\ badWords # <<>>
    /\ \A term \in BlockedTerms : PlainTerm(term)
    /\ \A term \in BlockedTerms : ~ContainsStandalone(term, lowerText(fText))
    /\ \E term \in BlockedTerms : ContainsStandalone(term, cleanText(fText))

----------------------------------------------------------------------------
(* Requests that do not overlap *)

\* A request starts only when every other connection is idle or answered.
NoOverlap ==
    \A r \in Reqs :
        (req[r].pc = "idle" /\ req'[r].pc # "idle") =>
            \A o \in Reqs \ {r} : req[o].pc \in {"idle", "done"}

SeqNext ==
    \/ Tick
    \/ \E r \in Reqs : Health(r) /\ NoOverlap
    \/ \E r \in Reqs, slug \in Slugs : GetPattern(r, slug) /\ NoOverlap
    \/ \E r \in Reqs, query \in Queries : Search(r, query) /\ NoOverlap
    \/ \E r \in Reqs, body \in UploadBodies : UploadRecv(r, body) /\ NoOverlap
    \/ \E r \in Reqs : UploadFindOne(r)
    \/ \E r \in Reqs : UploadSave(r)
    \/ \E r \in Reqs, slug \in Slugs : LikeFindOne(r, slug) /\ NoOverlap
    \/ \E r \in Reqs : LikeSave(r)
    \/ \E r \in Reqs : Close(r)

SeqSpec == Init /\ [][SeqNext]_vars

----------------------------------------------------------------------------
(* What the claims speak of *)

\* A record with this slug is persisted.
Persisted(slug) == \E i \in DocIds : db[i].slug = slug

\* The stored likes of the record with this slug.
StoredLikes(slug) == findOne(slug).likes

\* Request r takes a step of its upload handler, from one await on.
UploadStep(r) == req'[r] # req[r] /\ req'[r].kind = "upload"

\* Request r is an answered like request with a likes count.
LikedOk(r) ==
    req[r].kind = "like" /\ req[r].pc = "done" /\ req[r].status = 200

\* A document but for its likes.
Frame(doc) == [doc EXCEPT !.likes = 0]

----------------------------------------------------------------------------
(* C1: slugs are unique *)

\* C1: in every reachable state no two persisted records have the same slug.
C1_SlugsUnique ==
    \A i, j \in DocIds : db[i].slug = db[j].slug => i = j

\* C1 witness: two uploads of one slug both passed the uniqueness check, one
\* was inserted and the insert of the other was refused.
C1_Witness ==
    \E r, o \in Reqs :
        /\ r # o
        /\ req[r].kind = "upload" /\ req[r].status = 201
        /\ req[o].kind = "upload" /\ req[o].status = 500
        /\ req[r].slug = req[o].slug

----------------------------------------------------------------------------
(* C2: the duplicate check comes before the other checks *)

\* C2: an upload with its five required fields whose slug is persisted when
\* it starts passes the required-field check without writing, finds the
\* record still persisted while it waits, and is answered 400 with the
\* duplicate-slug error, the store unchanged.
C2_DuplicateFirst ==
    [][\A r \in Reqs :
         /\ (req[r].pc = "idle" /\ req'[r].kind = "upload"
               /\ req'[r].body.patternUrl # <<>> /\ req'[r].body.patternName # <<>>
               /\ req'[r].body.authorName # <<>> /\ req'[r].body.description # <<>>
               /\ req'[r].body.slug # <<>> /\ Persisted(req'[r].body.slug))
              => (req'[r].pc = "findOne" /\ db' = db)
         /\ (req[r].kind = "upload" /\ req[r].pc = "findOne"
               /\ Persisted(req[r].body.slug))
              => \/ (req'[r] = req[r] /\ \E i \in DOMAIN db' :
                                            db'[i].slug = req[r].body.slug)
                 \/ /\ req'[r].pc = "done"
                    /\ req'[r].status = 400
                    /\ req'[r].resp = ErrorResp(DuplicateError)
                    /\ db' = db
      ]_vars

\* C2 witness: an upload that a later check would also refuse was answered
\* with the duplicate-slug error.
C2_Witness ==
    \E r \in Reqs :
        /\ req[r].kind = "upload" /\ req[r].pc = "done"
        /\ req[r].resp.error = DuplicateError
        /\ containsBadWords(req[r].body.description)

----------------------------------------------------------------------------
(* C3: likes never decrease *)

\* C3: from one state of the store to the next no record's likes decrease,
\* and they are always at least 0.
C3_LikesNeverDecrease ==
    [][\A i \in DocIds :
          /\ i \in DOMAIN db'
          /\ db'[i].likes >= db[i].likes
          /\ db[i].likes >= 0
      ]_vars

----------------------------------------------------------------------------
(* C4: likes counted exactly when requests do not overlap *)

\* C4: without overlap a record is created with likes 0, the stored likes
\* of every record equal the like requests answered 200 on its slug, the
\* n-th of them answers n, and fetch-by-slug answers that count.
C4_SequentialLikesExact ==
    /\ [](\A i \in DocIds : db[i].likes = likeCount[db[i].slug])
    /\ [][\A r \in Reqs :
            /\ (UploadStep(r) /\ req'[r].status = 201)
                 => db'[Len(db')].likes = 0
            /\ (req[r].kind = "like" /\ req[r].pc = "save" /\ req'[r] # req[r])
                 => /\ req'[r].status = 200
                    /\ likeCount'[req[r].slug] = likeCount[req[r].slug] + 1
                    /\ req'[r].resp.likes = likeCount'[req[r].slug]
                    /\ db'[req[r].pattern.id].likes = likeCount'[req[r].slug]
            /\ (req[r].pc = "idle" /\ req'[r].kind = "fetch"
                  /\ req'[r].status = 200)
                 => req'[r].resp.docs[1].likes = likeCount[req'[r].slug]
         ]_vars

\* C4 witness: the second like request in sequence on a slug answered 2.
C4_Witness ==
    \E r \in Reqs :
        /\ LikedOk(r) /\ req[r].resp.likes = 2
        /\ likeCount[req[r].slug] = 2
        /\ StoredLikes(req[r].slug) = 2

----------------------------------------------------------------------------
(* C5: search by literal substring *)

\* q occurs in t as a literal substring, compared without case.
LiteralSubstring(q, t) == \E i \in 0..Len(t) : OccursAt(q, t, i)

LiteralMatches(q, doc) ==
    \/ LiteralSubstring(q, doc.patternName)
    \/ LiteralSubstring(q, doc.authorName)
    \/ LiteralSubstring(q, doc.description)

\* C5: a search with a non-empty q answers exactly the records holding q
\* as a literal substring, without case, in one of the three text fields,
\* each once, newest first.
C5_SearchLiteralSubstring ==
    [][\A r \in Reqs :
          (req[r].pc = "idle" /\ req'[r].kind = "search" /\ req'[r].q # <<>>)
            => /\ req'[r].status = 200
               /\ Range(req'[r].resp.docs) =
                     {db[i] : i \in {j \in DocIds : LiteralMatches(req'[r].q, db[j])}}
               /\ Len(req'[r].resp.docs) = Cardinality(Range(req'[r].resp.docs))
               /\ NewestFirst(req'[r].resp.docs)
      ]_vars

----------------------------------------------------------------------------
(* C7: a like can be lost *)

\* C7: a like request reads the stored likes and later writes the read
\* value plus 1, whatever the stored value has become, and answers 200 with
\* the value it wrote.
C7_LikeWritesReadValuePlusOne ==
    [][\A r \in Reqs :
          /\ (req[r].pc = "idle" /\ req'[r].kind = "like" /\ req'[r].pc = "save")
               => req'[r].pattern.likes = StoredLikes(req'[r].slug) + 1
          /\ (req[r].kind = "like" /\ req[r].pc = "save" /\ req'[r] # req[r])
               => /\ req'[r].status = 200
                  /\ req'[r].resp.likes = req[r].pattern.likes
                  /\ db'[req[r].pattern.id].likes = req[r].pattern.likes
      ]_vars

\* C7 witness: two like requests on a record with no likes were both
\* answered 200 with the count 1, and the stored count is 1.
C7_Witness ==
    \E r, o \in Reqs :
        /\ r # o
        /\ LikedOk(r) /\ LikedOk(o) /\ req[r].slug = req[o].slug
        /\ req[r].resp.likes = 1 /\ req[o].resp.likes = 1
        /\ likeCount[req[r].slug] = 2
        /\ StoredLikes(req[r].slug) = 1

----------------------------------------------------------------------------
(* C8: the answer to an upload of a persisted slug *)

\* C8: an upload that has passed the required-field check and is answered
\* while a record with its slug is persisted is answered 400 with the
\* duplicate-slug error.
C8_DuplicateAnswered400 ==
    [][\A r \in Reqs :
          (req[r].kind = "upload" /\ req[r].pc \in {"findOne", "save"}
             /\ req'[r].pc = "done" /\ Persisted(req[r].slug))
            => /\ req'[r].status = 400
               /\ req'[r].resp = ErrorResp(DuplicateError)
      ]_vars

----------------------------------------------------------------------------
(* C9: an upload writes only after its checks *)

\* Every check of the upload handler passes on this body.
ChecksPass(body) ==
    /\ body.patternUrl # <<>> /\ body.patternName # <<>>
    /\ body.authorName # <<>> /\ body.description # <<>> /\ body.slug # <<>>
    /\ ~containsBadWords(body.patternUrl) /\ ~containsBadWords(body.patternName)
    /\ ~containsBadWords(body.authorName) /\ ~containsBadWords(body.description)
    /\ toLowerCase(extname(body.patternUrl)) \in validExtensions
    /\ (body.thumbnailUrl # <<>> =>
           toLowerCase(extname(body.thumbnailUrl)) \in validImageExtensions)

\* C9: a step of an upload request that answers 201 adds exactly one
\* record, that of its body, whose checks all pass and whose slug was not
\* persisted; every other step of an upload request leaves the store as it
\* is.
C9_WriteOnlyAfterChecks ==
    [][\A r \in Reqs : UploadStep(r) =>
          IF req'[r].status = 201
          THEN /\ ChecksPass(req'[r].body)
               /\ ~Persisted(req'[r].body.slug)
               /\ Len(db') = Len(db) + 1
               /\ SubSeq(db', 1, Len(db)) = db
               /\ [f \in DOMAIN NoBody |-> db'[Len(db')][f]] = req'[r].body
          ELSE db' = db
      ]_vars

\* C9 witness: of two uploads of one slug one was answered 201 and the
\* other refused, and the store holds the one record.
C9_Witness ==
    \E r, o \in Reqs :
        /\ req[r].kind = "upload" /\ req[r].status = 201
        /\ req[o].kind = "upload" /\ req[o].pc = "done" /\ req[o].status # 201
        /\ req[o].slug = req[r].slug
        /\ Len(db) = 1

----------------------------------------------------------------------------
(* C10: what each request leaves alone *)

\* C10: no step removes a record or changes anything of it but its likes;
\* a like request changes the likes of records of its slug alone; a fetch,
\* a search, the health check and a request answered 404 leave the store
\* as it is.
C10_Frame ==
    [][/\ \A i \in DocIds : i \in DOMAIN db' /\ Frame(db'[i]) = Frame(db[i])
       /\ \A r \in Reqs :
            /\ (req'[r] # req[r] /\ req[r].kind = "like")
                 => /\ Len(db') = Len(db)
                    /\ \A i \in DocIds :
                          db[i].slug # req[r].slug => db'[i] = db[i]
            /\ (req'[r] # req[r]
                  /\ \/ req'[r].kind \in {"fetch", "search", "health"}
                     \/ req'[r].status = 404)
                 => db' = db
      ]_vars

\* C10 witness: a like was answered while two records are persisted, and
\* the record of the other slug has no likes.
C10_Witness ==
    \E r \in Reqs :
        /\ LikedOk(r)
        /\ Len(db) = 2
        /\ \E i \in DocIds : db[i].slug # req[r].slug /\ db[i].likes = 0
        /\ StoredLikes(req[r].slug) > 0

============================================================================
